---- MODULE Spec2Model ----
(***************************************************************************)
(* Model of the VotingBlock contract (Solidity, pragma ^0.8.26).           *)
(*                                                                         *)
(* The state is the contract's storage (votingSessions, votingSessionCount)*)
(* plus the chain clock block.timestamp.  Every external function is one   *)
(* atomic action (an EVM transaction or call): it either commits all of    *)
(* its writes or reverts and commits none.  lastCall records the call that *)
(* the last step made, with its arguments, its outcome (Ok or the revert   *)
(* string), its return value and the event it emitted.                     *)
(***************************************************************************)
EXTENDS Integers, Sequences, FiniteSets

\* ------------------------------------------------------------------ bounds
MaxSessions == 2      \* createVotingSession is explored up to this many sessions
NumVoters == 2        \* number of distinct caller addresses
MaxTime == 3          \* block.timestamp is explored up to this value
MaxDuration == 1      \* largest ordinary _durationInSeconds tried
UintMax == 7          \* type(uint).max, scaled down from 2^256 - 1

\* ------------------------------------------------------------------ inputs
Voters == 1..NumVoters
SessionIds == 0..MaxSessions
Titles == {"Best fruit"}
Durations == (0..MaxDuration) \cup {UintMax}
CandidateLists ==
    { <<>>,
      <<"Banana">>,
      <<"Banana", "Banana">>,
      <<"Banana", "Watermelon", "Papaya">>,
      <<"Banana", "Watermelon", "Banana">>,
      <<"Papaya", "Watermelon", "Watermelon">> }
CandidateIndexes == UNION { 0..Len(c) : c \in CandidateLists }

\* ---------------------------------------------------------- revert reasons
Ok == "ok"
InsufficientCandidates == "Need at least two candidates."
InvalidDuration == "Duration must be greater than zero."
DuplicateCandidate == "Duplicate candidate found."
SessionNotActive == "Voting session is not active."
SessionEnded == "Voting session has ended."
AlreadyVoted == "You have already voted."
InvalidCandidateIndex == "Invalid candidate index."
UnknownSession == "Invalid session ID."
AlreadyFinalized == "Session already finalized."
SessionStillActive == "Voting period is still active."
ResultsAlreadyCalculated == "Results already calculated."
ResultsNotReady == "Results not calculated yet."
ArithmeticPanic == "Panic(0x11)"
IndexPanic == "Panic(0x32)"

\* accepted[s][v] and finalizeOk[s] are history variables: the number of vote
\* calls by v on s, and of calculateResults calls on s, that did not revert.
\* createdIds and reportedTally are history variables too: the ids returned
\* by the createVotingSession calls that did not revert, in call order, and
\* for each session the tally its ResultsCalculated event carried.
VARIABLES votingSessions, votingSessionCount, blockTimestamp, accepted, finalizeOk,
          createdIds, reportedTally, lastCall

vars == <<votingSessions, votingSessionCount, blockTimestamp, accepted, finalizeOk,
          createdIds, reportedTally, lastCall>>

\* ------------------------------------------------------------------ storage
\* The value every slot of the votingSessions mapping reads as before it is
\* written: Solidity storage is zero-initialised.
DefaultSession ==
    [ title |-> "",
      candidates |-> <<>>,
      isActive |-> FALSE,
      startTimestamp |-> 0,
      endTimestamp |-> 0,
      resultsCalculated |-> FALSE,
      finalTally |-> <<>>,
      hasVoted |-> [v \in Voters |-> FALSE] ]

NoCall == [op |-> "none", sender |-> 0, args |-> <<>>, result |-> Ok, ret |-> <<>>, event |-> <<>>]

Call(op, sender, args, result, ret, event) ==
    [op |-> op, sender |-> sender, args |-> args, result |-> result, ret |-> ret, event |-> event]

Init ==
    /\ votingSessions = [s \in SessionIds |-> DefaultSession]
    /\ votingSessionCount = 0
    /\ blockTimestamp = 1
    /\ accepted = [s \in SessionIds |-> [v \in Voters |-> 0]]
    /\ finalizeOk = [s \in SessionIds |-> 0]
    /\ createdIds = <<>>
    /\ reportedTally = [s \in SessionIds |-> <<>>]
    /\ lastCall = NoCall

\* ------------------------------------------------------ createVotingSession
\* keccak256(bytes(s)): a digest of the string; two strings have the same
\* digest exactly when they are byte-equal (collisions are not modelled).
keccak256(s) == <<"keccak256", s>>

\* Variant of HasDuplicate that compares neighbouring candidates only.
HasDuplicate_AdjacentOnly(cands) ==
    \E i \in 1..(Len(cands) - 1) :
        keccak256(cands[i]) = keccak256(cands[i + 1])

\* The nested loops over i < j of lines 47-54: TRUE when some require fails.
HasDuplicate(cands) ==
    \E i \in 1..Len(cands) : \E j \in (i + 1)..Len(cands) :
        keccak256(cands[i]) = keccak256(cands[j])

\* The requires of createVotingSession in source order, then the checked
\* addition block.timestamp + _durationInSeconds (Solidity 0.8 reverts with
\* Panic(0x11) on overflow, rolling back the writes made before it).
CreateCheck(cands, dur) ==
    IF ~(Len(cands) > 1) THEN InsufficientCandidates
    ELSE IF ~(dur > 0) THEN InvalidDuration
    ELSE IF HasDuplicate(cands) THEN DuplicateCandidate
    ELSE IF blockTimestamp + dur > UintMax THEN ArithmeticPanic
    ELSE Ok

\* The writes of lines 59-65 to the storage slot votingSessions[sessionId];
\* resultsCalculated and hasVoted are not written and keep the slot's value.
NewSession(slot, title, cands, dur) ==
    [slot EXCEPT !.title = title,
                 !.candidates = cands,
                 !.isActive = TRUE,
                 !.startTimestamp = blockTimestamp,
                 !.endTimestamp = blockTimestamp + dur,
                 !.finalTally = [i \in 1..Len(cands) |-> 0]]

\* Variant of NextSessionId that is one too low: the id of the session
\* created last (the first id when there is none).
NextSessionId_ReusesLast ==
    IF votingSessionCount > 0 THEN votingSessionCount - 1 ELSE votingSessionCount

\* Variant of NextSessionId that increments before reading the counter.
NextSessionId_PreIncrement == votingSessionCount + 1

\* Line 56: the id the new session gets.
NextSessionId == votingSessionCount

\* The contract's storage as one value.
Storage == [sessions |-> votingSessions, count |-> votingSessionCount]

\* The storage when line 64 is reached: lines 56-63 have been executed.
StorageAtDeadlineSum(sessionId, title, cands) ==
    [sessions |-> [votingSessions EXCEPT ![sessionId] =
                      [@ EXCEPT !.title = title,
                                !.candidates = cands,
                                !.isActive = TRUE,
                                !.startTimestamp = blockTimestamp]],
     count |-> votingSessionCount + 1]

\* Variant of Revert that keeps the writes made before the failure.
Revert_KeepsWrites(before, atRevert) == atRevert

\* A reverting call: the EVM discards every write the call has made, so the
\* storage is what it was before the call.
Revert(before, atRevert) == before

createVotingSession(title, cands, dur) ==
    LET r == CreateCheck(cands, dur)
        sessionId == NextSessionId
        args == [title |-> title, candidates |-> cands, duration |-> dur]
        \* the requires precede every write; the overflow of line 64 does not
        atRevert == IF r = ArithmeticPanic
                    THEN StorageAtDeadlineSum(sessionId, title, cands)
                    ELSE Storage
        kept == Revert(Storage, atRevert)
    IN  /\ r = Ok => votingSessionCount < MaxSessions
        /\ IF r = Ok
           THEN /\ votingSessionCount' = votingSessionCount + 1
                /\ votingSessions' =
                      [votingSessions EXCEPT ![sessionId] =
                          NewSession(votingSessions[sessionId], title, cands, dur)]
                /\ lastCall' =
                      Call("createVotingSession", 0, args, Ok, sessionId,
                           <<"VotingSessionCreated", sessionId, title, cands,
                             votingSessions'[sessionId].startTimestamp,
                             votingSessions'[sessionId].endTimestamp>>)
                /\ createdIds' = Append(createdIds, sessionId)
           ELSE /\ votingSessions' = kept.sessions
                /\ votingSessionCount' = kept.count
                /\ lastCall' = Call("createVotingSession", 0, args, r, <<>>, <<>>)
                /\ UNCHANGED createdIds
        /\ UNCHANGED <<blockTimestamp, accepted, finalizeOk, reportedTally>>

\* --------------------------------------------------------------------- vote
\* Variant of VoteCheck without the hasVoted require.
VoteCheck_NoAlreadyVoted(session, sender, candidateIndex) ==
    IF ~session.isActive THEN SessionNotActive
    ELSE IF ~(blockTimestamp <= session.endTimestamp) THEN SessionEnded
    ELSE IF ~(candidateIndex < Len(session.candidates)) THEN InvalidCandidateIndex
    ELSE Ok

\* Variant of VoteCheck without the endTimestamp require.
VoteCheck_NoDeadline(session, sender, candidateIndex) ==
    IF ~session.isActive THEN SessionNotActive
    ELSE IF session.hasVoted[sender] THEN AlreadyVoted
    ELSE IF ~(candidateIndex < Len(session.candidates)) THEN InvalidCandidateIndex
    ELSE Ok

\* Variant of VoteCheck that validates the candidate index before hasVoted.
VoteCheck_IndexFirst(session, sender, candidateIndex) ==
    IF ~session.isActive THEN SessionNotActive
    ELSE IF ~(blockTimestamp <= session.endTimestamp) THEN SessionEnded
    ELSE IF ~(candidateIndex < Len(session.candidates)) THEN InvalidCandidateIndex
    ELSE IF session.hasVoted[sender] THEN AlreadyVoted
    ELSE Ok

\* Variant of VoteCheck that tests the deadline before isActive.
VoteCheck_DeadlineFirst(session, sender, candidateIndex) ==
    IF ~(blockTimestamp <= session.endTimestamp) THEN SessionEnded
    ELSE IF ~session.isActive THEN SessionNotActive
    ELSE IF session.hasVoted[sender] THEN AlreadyVoted
    ELSE IF ~(candidateIndex < Len(session.candidates)) THEN InvalidCandidateIndex
    ELSE Ok

\* Variant of VoteCheck without the two requires on the session's state.
VoteCheck_NoSessionState(session, sender, candidateIndex) ==
    IF session.hasVoted[sender] THEN AlreadyVoted
    ELSE IF ~(candidateIndex < Len(session.candidates)) THEN InvalidCandidateIndex
    ELSE Ok

\* Variant of VoteCheck whose index test is <= instead of <.
VoteCheck_IndexOffByOne(session, sender, candidateIndex) ==
    IF ~session.isActive THEN SessionNotActive
    ELSE IF ~(blockTimestamp <= session.endTimestamp) THEN SessionEnded
    ELSE IF session.hasVoted[sender] THEN AlreadyVoted
    ELSE IF ~(candidateIndex <= Len(session.candidates)) THEN InvalidCandidateIndex
    ELSE Ok

\* Variant of VoteCheck that tests hasVoted before the deadline.
VoteCheck_VoterFirst(session, sender, candidateIndex) ==
    IF ~session.isActive THEN SessionNotActive
    ELSE IF session.hasVoted[sender] THEN AlreadyVoted
    ELSE IF ~(blockTimestamp <= session.endTimestamp) THEN SessionEnded
    ELSE IF ~(candidateIndex < Len(session.candidates)) THEN InvalidCandidateIndex
    ELSE Ok

\* The four requires of vote in source order.
VoteCheck(session, sender, candidateIndex) ==
    IF ~session.isActive THEN SessionNotActive
    ELSE IF ~(blockTimestamp <= session.endTimestamp) THEN SessionEnded
    ELSE IF session.hasVoted[sender] THEN AlreadyVoted
    ELSE IF ~(candidateIndex < Len(session.candidates)) THEN InvalidCandidateIndex
    ELSE Ok

\* Variant of CastVote that counts the vote without marking the voter.
CastVote_NoMark(session, sender, candidateIndex) ==
    [session EXCEPT !.finalTally[candidateIndex + 1] = @ + 1]

\* Variant of CastVote that always counts the vote for the first candidate.
CastVote_FirstEntry(session, sender, candidateIndex) ==
    [session EXCEPT !.hasVoted[sender] = TRUE,
                    !.finalTally[1] = @ + 1]

\* Lines 84-85; finalTally is 0-indexed in the source, 1-indexed here.
CastVote(session, sender, candidateIndex) ==
    [session EXCEPT !.hasVoted[sender] = TRUE,
                    !.finalTally[candidateIndex + 1] = @ + 1]

vote(sender, sessionId, candidateIndex) ==
    LET session == votingSessions[sessionId]
        r == VoteCheck(session, sender, candidateIndex)
        args == [sessionId |-> sessionId, candidateIndex |-> candidateIndex]
    IN  /\ IF r = Ok
           THEN /\ votingSessions' =
                      [votingSessions EXCEPT ![sessionId] =
                          CastVote(session, sender, candidateIndex)]
                /\ accepted' = [accepted EXCEPT ![sessionId][sender] = @ + 1]
                /\ lastCall' = Call("vote", sender, args, Ok, <<>>,
                                    <<"VoteCast", sessionId, sender, candidateIndex>>)
           ELSE /\ UNCHANGED <<votingSessions, accepted>>
                /\ lastCall' = Call("vote", sender, args, r, <<>>, <<>>)
        /\ UNCHANGED <<votingSessionCount, blockTimestamp, finalizeOk, createdIds, reportedTally>>

\* --------------------------------------------------------- calculateResults
\* Variant of CalculateResultsCheck whose deadline test is >= instead of >.
CalculateResultsCheck_AtDeadline(sessionId) ==
    IF ~(sessionId < votingSessionCount) THEN UnknownSession
    ELSE IF ~votingSessions[sessionId].isActive THEN AlreadyFinalized
    ELSE IF ~(blockTimestamp >= votingSessions[sessionId].endTimestamp) THEN SessionStillActive
    ELSE IF votingSessions[sessionId].resultsCalculated THEN ResultsAlreadyCalculated
    ELSE Ok

\* Variant of CalculateResultsCheck whose id test is <= instead of <.
CalculateResultsCheck_IdOffByOne(sessionId) ==
    IF ~(sessionId <= votingSessionCount) THEN UnknownSession
    ELSE IF ~votingSessions[sessionId].isActive THEN AlreadyFinalized
    ELSE IF ~(blockTimestamp > votingSessions[sessionId].endTimestamp) THEN SessionStillActive
    ELSE IF votingSessions[sessionId].resultsCalculated THEN ResultsAlreadyCalculated
    ELSE Ok

\* Variant of CalculateResultsCheck whose deadline test is < instead of >.
CalculateResultsCheck_BeforeDeadline(sessionId) ==
    IF ~(sessionId < votingSessionCount) THEN UnknownSession
    ELSE IF ~votingSessions[sessionId].isActive THEN AlreadyFinalized
    ELSE IF ~(blockTimestamp < votingSessions[sessionId].endTimestamp) THEN SessionStillActive
    ELSE IF votingSessions[sessionId].resultsCalculated THEN ResultsAlreadyCalculated
    ELSE Ok

\* Variant of CalculateResultsCheck without the deadline require.
CalculateResultsCheck_NoDeadline(sessionId) ==
    IF ~(sessionId < votingSessionCount) THEN UnknownSession
    ELSE IF ~votingSessions[sessionId].isActive THEN AlreadyFinalized
    ELSE IF votingSessions[sessionId].resultsCalculated THEN ResultsAlreadyCalculated
    ELSE Ok

\* The four requires of calculateResults in source order.
CalculateResultsCheck(sessionId) ==
    IF ~(sessionId < votingSessionCount) THEN UnknownSession
    ELSE IF ~votingSessions[sessionId].isActive THEN AlreadyFinalized
    ELSE IF ~(blockTimestamp > votingSessions[sessionId].endTimestamp) THEN SessionStillActive
    ELSE IF votingSessions[sessionId].resultsCalculated THEN ResultsAlreadyCalculated
    ELSE Ok

\* Variant of Finalize that leaves isActive as it was.
Finalize_KeepsActive(session) ==
    [session EXCEPT !.resultsCalculated = TRUE]

\* Lines 99-100.
Finalize(session) ==
    [session EXCEPT !.resultsCalculated = TRUE, !.isActive = FALSE]

calculateResults(sessionId) ==
    LET r == CalculateResultsCheck(sessionId)
        args == [sessionId |-> sessionId]
    IN  /\ IF r = Ok
           THEN /\ votingSessions' =
                      [votingSessions EXCEPT ![sessionId] = Finalize(@)]
                /\ lastCall' = Call("calculateResults", 0, args, Ok, <<>>,
                                    <<"ResultsCalculated", sessionId,
                                      votingSessions'[sessionId].finalTally>>)
                /\ finalizeOk' = [finalizeOk EXCEPT ![sessionId] = @ + 1]
                /\ reportedTally' = [reportedTally EXCEPT ![sessionId] = lastCall'.event[3]]
           ELSE /\ UNCHANGED <<votingSessions, finalizeOk, reportedTally>>
                /\ lastCall' = Call("calculateResults", 0, args, r, <<>>, <<>>)
        /\ UNCHANGED <<votingSessionCount, blockTimestamp, accepted, createdIds>>

\* --------------------------------------------------------------- getWinners
\* Variant of CountWinners whose first test is >= instead of >.
RECURSIVE CountWinners_ResetOnTie(_, _, _, _)
CountWinners_ResetOnTie(tally, i, highestVoteCount, winnersCount) ==
    IF i > Len(tally) THEN <<highestVoteCount, winnersCount>>
    ELSE IF tally[i] >= highestVoteCount
         THEN CountWinners_ResetOnTie(tally, i + 1, tally[i], 1)
    ELSE CountWinners_ResetOnTie(tally, i + 1, highestVoteCount, winnersCount)

\* First loop (lines 112-119) over finalTally[from..]: the running pair
\* <<highestVoteCount, winnersCount>>.
RECURSIVE CountWinners(_, _, _, _)
CountWinners(tally, i, highestVoteCount, winnersCount) ==
    IF i > Len(tally) THEN <<highestVoteCount, winnersCount>>
    ELSE IF tally[i] > highestVoteCount THEN CountWinners(tally, i + 1, tally[i], 1)
    ELSE IF tally[i] = highestVoteCount
         THEN CountWinners(tally, i + 1, highestVoteCount, winnersCount + 1)
    ELSE CountWinners(tally, i + 1, highestVoteCount, winnersCount)

\* Second loop (lines 123-128): the candidates written to winners[index++],
\* in the order they are written.
RECURSIVE CollectWinners(_, _, _)
CollectWinners(session, i, highestVoteCount) ==
    IF i > Len(session.finalTally) THEN <<>>
    ELSE IF session.finalTally[i] = highestVoteCount
         THEN <<session.candidates[i]>> \o CollectWinners(session, i + 1, highestVoteCount)
    ELSE CollectWinners(session, i + 1, highestVoteCount)

\* Variant of GetWinnersOutcome that requires !isActive instead of
\* resultsCalculated.
GetWinnersOutcome_ChecksActive(session) ==
    IF session.isActive THEN [result |-> ResultsNotReady, ret |-> <<>>]
    ELSE LET counted == CountWinners(session.finalTally, 1, 0, 0)
             written == CollectWinners(session, 1, counted[1])
         IN  [result |-> Ok,
              ret |-> [k \in 1..counted[2] |->
                         IF k <= Len(written) THEN written[k] ELSE ""]]

\* The outcome of getWinners: [result, ret].  winners is allocated with
\* winnersCount empty strings; a write past its end is Panic(0x32).
GetWinnersOutcome(session) ==
    IF ~session.resultsCalculated THEN [result |-> ResultsNotReady, ret |-> <<>>]
    ELSE LET counted == CountWinners(session.finalTally, 1, 0, 0)
             written == CollectWinners(session, 1, counted[1])
         IN  IF Len(written) > counted[2]
             THEN [result |-> IndexPanic, ret |-> <<>>]
             ELSE [result |-> Ok,
                   ret |-> [k \in 1..counted[2] |->
                              IF k <= Len(written) THEN written[k] ELSE ""]]

getWinners(sessionId) ==
    LET out == GetWinnersOutcome(votingSessions[sessionId])
    IN  /\ lastCall' = Call("getWinners", 0, [sessionId |-> sessionId],
                            out.result, out.ret, <<>>)
        /\ UNCHANGED <<votingSessions, votingSessionCount, blockTimestamp, accepted, finalizeOk,
                     createdIds, reportedTally>>

\* ----------------------------------------------------------- read accessors
getSessionInfo(sessionId) ==
    LET session == votingSessions[sessionId]
    IN  /\ lastCall' = Call("getSessionInfo", 0, [sessionId |-> sessionId], Ok,
                            <<session.title, session.candidates, session.isActive,
                              session.resultsCalculated, session.startTimestamp,
                              session.endTimestamp>>, <<>>)
        /\ UNCHANGED <<votingSessions, votingSessionCount, blockTimestamp, accepted, finalizeOk,
                     createdIds, reportedTally>>

getTally(sessionId) ==
    /\ lastCall' = Call("getTally", 0, [sessionId |-> sessionId], Ok,
                        votingSessions[sessionId].finalTally, <<>>)
    /\ UNCHANGED <<votingSessions, votingSessionCount, blockTimestamp, accepted, finalizeOk,
                     createdIds, reportedTally>>

hasVoted(sessionId, voter) ==
    /\ lastCall' = Call("hasVoted", 0, [sessionId |-> sessionId, voter |-> voter], Ok,
                        votingSessions[sessionId].hasVoted[voter], <<>>)
    /\ UNCHANGED <<votingSessions, votingSessionCount, blockTimestamp, accepted, finalizeOk,
                     createdIds, reportedTally>>

\* -------------------------------------------------------------------- clock
\* block.timestamp between two transactions: non-decreasing, here one second
\* at a time.
Tick ==
    /\ blockTimestamp < MaxTime
    /\ blockTimestamp' = blockTimestamp + 1
    /\ lastCall' = NoCall
    /\ UNCHANGED <<votingSessions, votingSessionCount, accepted, finalizeOk,
                   createdIds, reportedTally>>

Next ==
    \/ \E title \in Titles, cands \in CandidateLists, dur \in Durations :
          createVotingSession(title, cands, dur)
    \/ \E sender \in Voters, sessionId \in SessionIds, candidateIndex \in CandidateIndexes :
          vote(sender, sessionId, candidateIndex)
    \/ \E sessionId \in SessionIds : calculateResults(sessionId)
    \/ \E sessionId \in SessionIds : getWinners(sessionId)
    \/ \E sessionId \in SessionIds : getSessionInfo(sessionId)
    \/ \E sessionId \in SessionIds : getTally(sessionId)
    \/ \E sessionId \in SessionIds, voter \in Voters : hasVoted(sessionId, voter)
    \/ Tick

Spec == Init /\ [][Next]_vars

\* The same calls over fewer argument values: one list that passes the
\* requires of createVotingSession and one that does not, and the smallest
\* and the largest candidate index.
FairCandidateLists == { <<"Banana">>, <<"Banana", "Watermelon", "Papaya">> }

FairCandidateIndexes == { 0, Len(<<"Banana", "Watermelon", "Papaya">>) }

FairNext ==
    \/ \E title \in Titles, cands \in FairCandidateLists, dur \in Durations :
          createVotingSession(title, cands, dur)
    \/ \E sender \in Voters, sessionId \in SessionIds, candidateIndex \in FairCandidateIndexes :
          vote(sender, sessionId, candidateIndex)
    \/ \E sessionId \in SessionIds : calculateResults(sessionId)
    \/ \E sessionId \in SessionIds : getWinners(sessionId)
    \/ \E sessionId \in SessionIds : getSessionInfo(sessionId)
    \/ \E sessionId \in SessionIds : getTally(sessionId)
    \/ \E sessionId \in SessionIds, voter \in Voters : hasVoted(sessionId, voter)
    \/ Tick

\* The clock keeps advancing (up to the explored horizon) and calculateResults
\* keeps being called on every session.
FairSpec ==
    /\ Init
    /\ [][FairNext]_vars
    /\ WF_vars(Tick)
    /\ \A s \in SessionIds : WF_vars(calculateResults(s))

\* =================================================================== claims
\* Helpers of the properties below (they are not part of the contract).
RECURSIVE SumSeq(_)
SumSeq(s) == IF s = <<>> THEN 0 ELSE Head(s) + SumSeq(Tail(s))

VotedIdentities(sessionId) == { v \in Voters : votingSessions[sessionId].hasVoted[v] }

Created(sessionId) == sessionId < votingSessionCount

CalledOp(call, op) == call.op = op

\* Two positions of the list hold the same name.
HasEqualPair(cands) ==
    \E i \in 1..Len(cands), j \in 1..Len(cands) : i # j /\ cands[i] = cands[j]

\* C1: under any interleaving of the atomic calls and any non-decreasing
\* clock, for every session and identity at most one vote call by that
\* identity on that session is ever accepted.
C1_AtMostOneAcceptedVote ==
    \A s \in SessionIds, v \in Voters : accepted[s][v] <= 1

\* A second vote by an identity whose first vote was accepted has been
\* attempted (with another candidate) and was turned down.
C1_Witness ==
    /\ CalledOp(lastCall, "vote")
    /\ lastCall.result = AlreadyVoted
    /\ accepted[lastCall.args.sessionId][lastCall.sender] = 1
    /\ votingSessions[lastCall.args.sessionId].finalTally[lastCall.args.candidateIndex + 1] = 0

\* C2: in every reachable state and for every session, the sum of the tally
\* entries equals the number of identities that have voted in the session.
C2_TallySumIsVoterCount ==
    \A s \in SessionIds :
        SumSeq(votingSessions[s].finalTally) = Cardinality(VotedIdentities(s))

\* Two identities have voted in one session while another session has a vote.
C2_Witness ==
    \E s1, s2 \in SessionIds :
        /\ s1 # s2
        /\ Cardinality(VotedIdentities(s1)) = 2
        /\ SumSeq(votingSessions[s2].finalTally) = 1

\* C3: a create call with fewer than 2 candidates, with duration 0 or with
\* two equal candidate names fails, and leaves the session count and every
\* session record as they were.
C3_BadCreateFailsAndCreatesNothing ==
    [][ ( /\ CalledOp(lastCall', "createVotingSession")
          /\ \/ Len(lastCall'.args.candidates) < 2
             \/ lastCall'.args.duration = 0
             \/ HasEqualPair(lastCall'.args.candidates) )
        => /\ lastCall'.result # Ok
           /\ votingSessionCount' = votingSessionCount
           /\ votingSessions' = votingSessions ]_vars

\* A create with a positive duration whose first and third candidates are
\* equal was turned down while a session already existed.
C3_Witness ==
    /\ CalledOp(lastCall, "createVotingSession")
    /\ lastCall.args.candidates = <<"Banana", "Watermelon", "Banana">>
    /\ lastCall.args.duration > 0
    /\ lastCall.result = DuplicateCandidate
    /\ votingSessionCount = 1
    /\ votingSessions[0].isActive

\* C4 as stated: for every created session, a vote call made when the
\* current time is greater than endTime fails with SessionEnded, whether or
\* not finalize has been called on the session.
C4_LateVoteAlwaysSessionEnded ==
    [][ ( /\ CalledOp(lastCall', "vote")
          /\ Created(lastCall'.args.sessionId)
          /\ blockTimestamp > votingSessions[lastCall'.args.sessionId].endTimestamp )
        => lastCall'.result = SessionEnded ]_vars

\* C4 as amended: for every created session, a vote call made when the
\* current time is greater than endTime fails and records nothing; it fails
\* with SessionEnded while the session has not been finalized and with
\* SessionNotActive once it has been.
C4_LateVoteRejected ==
    [][ ( /\ CalledOp(lastCall', "vote")
          /\ Created(lastCall'.args.sessionId)
          /\ blockTimestamp > votingSessions[lastCall'.args.sessionId].endTimestamp )
        => /\ lastCall'.result =
                 IF votingSessions[lastCall'.args.sessionId].resultsCalculated
                 THEN SessionNotActive ELSE SessionEnded
           /\ votingSessions' = votingSessions
           /\ accepted' = accepted ]_vars

\* A vote with a valid index by an identity that has not voted was turned
\* down with SessionEnded on an expired session nobody has finalized, while
\* another session is finalized.
C4_Witness ==
    /\ CalledOp(lastCall, "vote")
    /\ lastCall.result = SessionEnded
    /\ Created(lastCall.args.sessionId)
    /\ ~votingSessions[lastCall.args.sessionId].resultsCalculated
    /\ blockTimestamp > votingSessions[lastCall.args.sessionId].endTimestamp
    /\ ~votingSessions[lastCall.args.sessionId].hasVoted[lastCall.sender]
    /\ lastCall.args.candidateIndex < Len(votingSessions[lastCall.args.sessionId].candidates)
    /\ \E s \in SessionIds : votingSessions[s].resultsCalculated

\* C5 as stated: once a vote by an identity has been accepted in a session,
\* every later vote call by it on that session fails with AlreadyVoted,
\* whatever index it passes and whenever it is made, and leaves the tally
\* unchanged.
C5_SecondVoteAlwaysAlreadyVoted ==
    [][ ( /\ CalledOp(lastCall', "vote")
          /\ accepted[lastCall'.args.sessionId][lastCall'.sender] >= 1 )
        => /\ lastCall'.result = AlreadyVoted
           /\ votingSessions'[lastCall'.args.sessionId].finalTally
                 = votingSessions[lastCall'.args.sessionId].finalTally ]_vars

\* C5 as amended: once a vote by an identity has been accepted in a session,
\* every later vote call by it on that session fails, whatever index it
\* passes and whenever it is made, and leaves the tally unchanged; the error
\* is AlreadyVoted while the session is open and the time is at most endTime,
\* SessionEnded while it is open and the time is past endTime, and
\* SessionNotActive once it is finalized.
C5_SecondVoteRejected ==
    [][ ( /\ CalledOp(lastCall', "vote")
          /\ accepted[lastCall'.args.sessionId][lastCall'.sender] >= 1 )
        => /\ lastCall'.result =
                 IF votingSessions[lastCall'.args.sessionId].resultsCalculated
                 THEN SessionNotActive
                 ELSE IF blockTimestamp > votingSessions[lastCall'.args.sessionId].endTimestamp
                 THEN SessionEnded
                 ELSE AlreadyVoted
           /\ votingSessions'[lastCall'.args.sessionId].finalTally
                 = votingSessions[lastCall'.args.sessionId].finalTally
           /\ accepted' = accepted ]_vars

\* A second vote with an out-of-range index, made in the voting window by an
\* identity whose vote was accepted, was turned down with AlreadyVoted.
C5_Witness ==
    /\ CalledOp(lastCall, "vote")
    /\ lastCall.result = AlreadyVoted
    /\ accepted[lastCall.args.sessionId][lastCall.sender] = 1
    /\ lastCall.args.candidateIndex >= Len(votingSessions[lastCall.args.sessionId].candidates)
    /\ blockTimestamp <= votingSessions[lastCall.args.sessionId].endTimestamp

\* C6: for every created session, calculateResults fails with
\* SessionStillActive whenever the current time is at most endTime, every
\* calculateResults call made after one has succeeded on the session fails
\* with AlreadyFinalized, and at most one call per session ever succeeds.
C6_FinalizeOncePastDeadline ==
    [][ /\ ( /\ CalledOp(lastCall', "calculateResults")
             /\ Created(lastCall'.args.sessionId)
             /\ blockTimestamp <= votingSessions[lastCall'.args.sessionId].endTimestamp )
           => lastCall'.result = SessionStillActive
        /\ ( /\ CalledOp(lastCall', "calculateResults")
             /\ finalizeOk[lastCall'.args.sessionId] >= 1 )
           => lastCall'.result = AlreadyFinalized
        /\ \A s \in SessionIds : finalizeOk'[s] <= 1 ]_vars

\* calculateResults was called again on a session it had finalized, while
\* another session is past its deadline and not yet finalized.
C6_Witness ==
    /\ CalledOp(lastCall, "calculateResults")
    /\ lastCall.result = AlreadyFinalized
    /\ finalizeOk[lastCall.args.sessionId] = 1
    /\ \E s \in SessionIds :
          /\ Created(s)
          /\ ~votingSessions[s].resultsCalculated
          /\ blockTimestamp > votingSessions[s].endTimestamp

\* C7: a calculateResults call with a sessionId greater than or equal to the
\* session count fails with UnknownSession and changes no state.
C7_FinalizeUnknownSession ==
    [][ ( /\ CalledOp(lastCall', "calculateResults")
          /\ lastCall'.args.sessionId >= votingSessionCount )
        => /\ lastCall'.result = UnknownSession
           /\ UNCHANGED <<votingSessions, votingSessionCount, blockTimestamp,
                          accepted, finalizeOk>> ]_vars

\* calculateResults was turned down on the first id not yet allocated, at a
\* time when an existing session was past its deadline.
C7_Witness ==
    /\ CalledOp(lastCall, "calculateResults")
    /\ lastCall.result = UnknownSession
    /\ lastCall.args.sessionId = votingSessionCount
    /\ votingSessionCount >= 1
    /\ blockTimestamp > votingSessions[0].endTimestamp

\* C8: a vote call on a sessionId that was never created fails with
\* SessionNotActive, for every caller, candidate index and clock value, and
\* records no vote.
C8_VoteOnUncreatedSession ==
    [][ ( /\ CalledOp(lastCall', "vote")
          /\ ~Created(lastCall'.args.sessionId) )
        => /\ lastCall'.result = SessionNotActive
           /\ votingSessions' = votingSessions
           /\ accepted' = accepted ]_vars

\* A vote on an id that was never allocated was turned down while another
\* session was open for voting.
C8_Witness ==
    /\ CalledOp(lastCall, "vote")
    /\ lastCall.result = SessionNotActive
    /\ ~Created(lastCall.args.sessionId)
    /\ \E s \in SessionIds :
          votingSessions[s].isActive /\ blockTimestamp <= votingSessions[s].endTimestamp

\* The candidate indexes whose tally equals the largest tally entry.
TopIndexes(session) ==
    { i \in 1..Len(session.finalTally) :
        \A j \in 1..Len(session.finalTally) : session.finalTally[j] <= session.finalTally[i] }

\* w lists the candidates at the indexes of set idx, in increasing index order.
ListsInIndexOrder(w, session, idx) ==
    /\ Len(w) = Cardinality(idx)
    /\ \A i \in idx : w[Cardinality({ j \in idx : j < i }) + 1] = session.candidates[i]

\* C9: for every finalized session, getWinners returns exactly the
\* candidates whose tally equals the maximum tally entry, in increasing
\* candidate-index order (all of them when every entry is zero, one when the
\* maximum is unique, the tied ones on a tie).
C9_WinnersAreTopCandidates ==
    ( /\ CalledOp(lastCall, "getWinners")
      /\ votingSessions[lastCall.args.sessionId].resultsCalculated )
    => /\ lastCall.result = Ok
       /\ ListsInIndexOrder(lastCall.ret, votingSessions[lastCall.args.sessionId],
                            TopIndexes(votingSessions[lastCall.args.sessionId]))

\* getWinners returned two tied candidates out of three.
C9_Witness ==
    /\ CalledOp(lastCall, "getWinners")
    /\ lastCall.result = Ok
    /\ votingSessions[lastCall.args.sessionId].finalTally = <<1, 0, 1>>
    /\ lastCall.ret = <<"Banana", "Papaya">>

\* C10: getWinners succeeds on a session only if that session is finalized;
\* on a session whose resultsCalculated flag is false (open, open and
\* expired, or never created) it fails with ResultsNotReady.
C10_WinnersNeedFinalized ==
    CalledOp(lastCall, "getWinners")
    => /\ lastCall.result = Ok => votingSessions[lastCall.args.sessionId].resultsCalculated
       /\ ~votingSessions[lastCall.args.sessionId].resultsCalculated
             => lastCall.result = ResultsNotReady /\ lastCall.ret = <<>>

\* getWinners was turned down on a session that was never created, while
\* another session is finalized.
C10_Witness ==
    /\ CalledOp(lastCall, "getWinners")
    /\ lastCall.result = ResultsNotReady
    /\ ~Created(lastCall.args.sessionId)
    /\ \E s \in SessionIds : votingSessions[s].resultsCalculated

\* C11: in every reachable state and for every session, resultsCalculated
\* implies not isActive, and once resultsCalculated is true for a session it
\* is true in every later state.
C11_FinalizedIsClosedForGood ==
    [][ \A s \in SessionIds :
          /\ votingSessions'[s].resultsCalculated => ~votingSessions'[s].isActive
          /\ votingSessions[s].resultsCalculated => votingSessions'[s].resultsCalculated ]_vars

\* A session was finalized, after which another session was created and
\* received a vote.
C11_Witness ==
    /\ votingSessions[0].resultsCalculated
    /\ ~votingSessions[0].isActive
    /\ votingSessions[1].isActive
    /\ SumSeq(votingSessions[1].finalTally) = 1
    /\ votingSessions[1].startTimestamp > votingSessions[0].endTimestamp

\* C12: the session count starts at 0, never decreases and equals the number
\* of create calls that succeeded; the k-th successful create (counting from
\* 0) returns sessionId k, so the created ids are exactly 0..count-1, with no
\* gap and no reuse.
C12_SessionIdsDense ==
    /\ votingSessionCount = 0
    /\ [][ /\ votingSessionCount' >= votingSessionCount
           /\ votingSessionCount' = Len(createdIds')
           /\ \A k \in 1..Len(createdIds') : createdIds'[k] = k - 1
           /\ ( CalledOp(lastCall', "createVotingSession") /\ lastCall'.result = Ok )
                 => /\ lastCall'.ret = Len(createdIds)
                    /\ votingSessionCount' = votingSessionCount + 1 ]_vars

\* The second successful create returned id 1, at a later time than the
\* first one, whose session had received a vote.
C12_Witness ==
    /\ CalledOp(lastCall, "createVotingSession")
    /\ lastCall.result = Ok
    /\ lastCall.ret = 1
    /\ votingSessionCount = 2
    /\ createdIds = <<0, 1>>
    /\ votingSessions[1].startTimestamp > votingSessions[0].startTimestamp
    /\ SumSeq(votingSessions[0].finalTally) = 1

\* C13: every create, vote or finalize call that fails, for whatever reason,
\* leaves the whole registry state unchanged: the session count and every
\* session's flags, tally, voted identities, candidates and timestamps.
C13_FailedCallChangesNothing ==
    [][ ( /\ lastCall'.op \in {"createVotingSession", "vote", "calculateResults"}
          /\ lastCall'.result # Ok )
        => /\ votingSessionCount' = votingSessionCount
           /\ votingSessions' = votingSessions ]_vars

\* A create was turned down by the overflow of its deadline, which happens
\* after the first writes of the call, while a session with a vote existed.
C13_Witness ==
    /\ CalledOp(lastCall, "createVotingSession")
    /\ lastCall.result = ArithmeticPanic
    /\ votingSessionCount = 1
    /\ votingSessions[1] = DefaultSession
    /\ SumSeq(votingSessions[0].finalTally) = 1

\* C14: once a session is finalized its tally never changes again: no vote
\* is accepted on a finalized session, so getTally returns in every later
\* state the sequence that the ResultsCalculated event carried.
C14_TallyFrozenOnceFinalized ==
    [][ /\ \A s \in SessionIds :
              votingSessions[s].resultsCalculated
                 => /\ votingSessions'[s].finalTally = votingSessions[s].finalTally
                    /\ reportedTally'[s] = reportedTally[s]
        /\ ( /\ CalledOp(lastCall', "vote")
             /\ votingSessions[lastCall'.args.sessionId].resultsCalculated )
              => lastCall'.result # Ok
        /\ ( /\ CalledOp(lastCall', "calculateResults")
             /\ lastCall'.result = Ok )
              => lastCall'.event[3] = votingSessions[lastCall'.args.sessionId].finalTally
        /\ ( /\ CalledOp(lastCall', "getTally")
             /\ votingSessions[lastCall'.args.sessionId].resultsCalculated )
              => lastCall'.ret = reportedTally[lastCall'.args.sessionId] ]_vars

\* getTally was called on a finalized session that holds two votes, at a
\* time when another session is open for voting.
C14_Witness ==
    /\ CalledOp(lastCall, "getTally")
    /\ votingSessions[lastCall.args.sessionId].resultsCalculated
    /\ lastCall.ret = reportedTally[lastCall.args.sessionId]
    /\ SumSeq(lastCall.ret) = 2
    /\ \E s \in SessionIds :
          votingSessions[s].isActive /\ blockTimestamp <= votingSessions[s].endTimestamp

\* C15: a create call with at least 2 pairwise distinct candidates and
\* duration > 0 succeeds and leaves the new session with isActive = true,
\* resultsCalculated = false, startTimestamp equal to the current time,
\* endTimestamp = startTimestamp + duration (hence after startTimestamp), a
\* tally of zeros with one entry per candidate, and no identity marked as
\* having voted.
C15_ValidCreateSucceeds ==
    [][ ( /\ CalledOp(lastCall', "createVotingSession")
          /\ Len(lastCall'.args.candidates) >= 2
          /\ ~HasEqualPair(lastCall'.args.candidates)
          /\ lastCall'.args.duration > 0 )
        => /\ lastCall'.result = Ok
           /\ LET new == votingSessions'[lastCall'.ret]
              IN  /\ new.isActive
                  /\ ~new.resultsCalculated
                  /\ new.candidates = lastCall'.args.candidates
                  /\ new.startTimestamp = blockTimestamp
                  /\ new.endTimestamp = new.startTimestamp + lastCall'.args.duration
                  /\ new.endTimestamp > new.startTimestamp
                  /\ new.finalTally = [i \in 1..Len(lastCall'.args.candidates) |-> 0]
                  /\ \A v \in Voters : ~new.hasVoted[v] ]_vars

\* C16: an accepted vote(sessionId, candidateIndex) by a caller marks exactly
\* that caller as having voted in that session and increases
\* tally[candidateIndex] by exactly 1; every other tally entry, every other
\* identity's voted status, and the session's isActive, resultsCalculated,
\* candidates and timestamps are unchanged.
C16_AcceptedVoteEffect ==
    [][ ( CalledOp(lastCall', "vote") /\ lastCall'.result = Ok )
        => LET old == votingSessions[lastCall'.args.sessionId]
               new == votingSessions'[lastCall'.args.sessionId]
               entry == lastCall'.args.candidateIndex + 1
           IN  /\ ~old.hasVoted[lastCall'.sender]
               /\ new.hasVoted[lastCall'.sender]
               /\ \A w \in Voters \ {lastCall'.sender} : new.hasVoted[w] = old.hasVoted[w]
               /\ Len(new.finalTally) = Len(old.finalTally)
               /\ entry \in 1..Len(old.finalTally)
               /\ new.finalTally[entry] = old.finalTally[entry] + 1
               /\ \A j \in 1..Len(old.finalTally) :
                     j # entry => new.finalTally[j] = old.finalTally[j]
               /\ new.isActive = old.isActive
               /\ new.resultsCalculated = old.resultsCalculated
               /\ new.candidates = old.candidates
               /\ new.title = old.title
               /\ new.startTimestamp = old.startTimestamp
               /\ new.endTimestamp = old.endTimestamp ]_vars

\* The second voter's vote for the third candidate was accepted in a session
\* where the first voter had voted for the first candidate.
C16_Witness ==
    /\ CalledOp(lastCall, "vote")
    /\ lastCall.result = Ok
    /\ lastCall.sender = 2
    /\ lastCall.args.candidateIndex = 2
    /\ votingSessions[lastCall.args.sessionId].finalTally = <<1, 0, 1>>
    /\ votingSessions[lastCall.args.sessionId].hasVoted[1]

\* C17: in an open session with current time <= endTimestamp, a vote by an
\* identity that has not yet voted with candidateIndex >= candidates.length
\* fails with InvalidCandidateIndex and does not mark the identity, which is
\* left able to vote: a vote by an unmarked identity with a valid index in
\* the window of an open session is accepted, whatever was turned down before.
C17_BadIndexDoesNotConsumeVote ==
    [][ /\ ( /\ CalledOp(lastCall', "vote")
             /\ votingSessions[lastCall'.args.sessionId].isActive
             /\ blockTimestamp <= votingSessions[lastCall'.args.sessionId].endTimestamp
             /\ ~votingSessions[lastCall'.args.sessionId].hasVoted[lastCall'.sender]
             /\ lastCall'.args.candidateIndex
                   >= Len(votingSessions[lastCall'.args.sessionId].candidates) )
           => /\ lastCall'.result = InvalidCandidateIndex
              /\ ~votingSessions'[lastCall'.args.sessionId].hasVoted[lastCall'.sender]
              /\ accepted' = accepted
              /\ votingSessions'[lastCall'.args.sessionId].isActive
              /\ blockTimestamp' <= votingSessions'[lastCall'.args.sessionId].endTimestamp
        /\ ( /\ CalledOp(lastCall', "vote")
             /\ votingSessions[lastCall'.args.sessionId].isActive
             /\ blockTimestamp <= votingSessions[lastCall'.args.sessionId].endTimestamp
             /\ ~votingSessions[lastCall'.args.sessionId].hasVoted[lastCall'.sender]
             /\ lastCall'.args.candidateIndex
                   < Len(votingSessions[lastCall'.args.sessionId].candidates) )
           => lastCall'.result = Ok ]_vars

\* A vote with index candidates.length was turned down in the window of an
\* open session in which the other identity has voted.
C17_Witness ==
    /\ CalledOp(lastCall, "vote")
    /\ lastCall.result = InvalidCandidateIndex
    /\ lastCall.args.candidateIndex = Len(votingSessions[lastCall.args.sessionId].candidates)
    /\ votingSessions[lastCall.args.sessionId].isActive
    /\ blockTimestamp <= votingSessions[lastCall.args.sessionId].endTimestamp
    /\ ~votingSessions[lastCall.args.sessionId].hasVoted[lastCall.sender]
    /\ Cardinality(VotedIdentities(lastCall.args.sessionId)) = 1

\* C18: when a vote call violates several preconditions at once, the error
\* reported is that of the first violated one in the order SessionNotActive
\* (session not open), SessionEnded (now > endTimestamp), AlreadyVoted,
\* InvalidCandidateIndex.
C18_FirstViolatedPreconditionWins ==
    [][ CalledOp(lastCall', "vote")
        => LET session == votingSessions[lastCall'.args.sessionId]
               notOpen == ~session.isActive
               ended == blockTimestamp > session.endTimestamp
               voted == session.hasVoted[lastCall'.sender]
               badIndex == lastCall'.args.candidateIndex >= Len(session.candidates)
           IN  /\ notOpen => lastCall'.result = SessionNotActive
               /\ (~notOpen /\ ended) => lastCall'.result = SessionEnded
               /\ (~notOpen /\ ~ended /\ voted) => lastCall'.result = AlreadyVoted
               /\ (~notOpen /\ ~ended /\ ~voted /\ badIndex)
                     => lastCall'.result = InvalidCandidateIndex ]_vars

\* A vote that violates the last three preconditions together (the session
\* is open but expired, the caller has voted, the index is out of range) was
\* turned down with SessionEnded.
C18_Witness ==
    /\ CalledOp(lastCall, "vote")
    /\ lastCall.result = SessionEnded
    /\ votingSessions[lastCall.args.sessionId].isActive
    /\ votingSessions[lastCall.args.sessionId].hasVoted[lastCall.sender]
    /\ lastCall.args.candidateIndex >= Len(votingSessions[lastCall.args.sessionId].candidates)

\* C19: a created session only moves forward through Open, Open-Expired and
\* Finalized: isActive never goes from false back to true, the clock passing
\* endTimestamp alone leaves isActive true, and for every created open
\* session a calculateResults call made at any time after endTimestamp
\* succeeds; so if the clock keeps advancing and calculateResults keeps being
\* called (weak fairness), every created session is eventually finalized
\* (here: every session whose endTimestamp lies before the horizon MaxTime
\* of the explored clock).
C19_SessionOnlyMovesForward ==
    /\ [][ /\ \A s \in SessionIds :
                 /\ (Created(s) /\ ~votingSessions[s].isActive)
                       => ~votingSessions'[s].isActive
                 /\ (votingSessions[s].isActive /\ blockTimestamp' # blockTimestamp)
                       => votingSessions'[s].isActive
           /\ ( /\ CalledOp(lastCall', "calculateResults")
                /\ Created(lastCall'.args.sessionId)
                /\ votingSessions[lastCall'.args.sessionId].isActive
                /\ blockTimestamp > votingSessions[lastCall'.args.sessionId].endTimestamp )
                 => /\ lastCall'.result = Ok
                    /\ votingSessions'[lastCall'.args.sessionId].resultsCalculated ]_vars
    /\ \A s \in SessionIds :
          (Created(s) /\ votingSessions[s].endTimestamp < MaxTime)
             ~> votingSessions[s].resultsCalculated

\* calculateResults succeeded on the second session, which holds a vote,
\* after the first session had been finalized.
C19_Witness ==
    /\ CalledOp(lastCall, "calculateResults")
    /\ lastCall.result = Ok
    /\ lastCall.args.sessionId = 1
    /\ votingSessions[0].resultsCalculated
    /\ votingSessions[1].resultsCalculated
    /\ SumSeq(votingSessions[1].finalTally) = 1

\* The number of vote calls accepted in a session, over all identities.
RECURSIVE SumAccepted(_, _)
SumAccepted(sessionId, voters) ==
    IF voters = {} THEN 0
    ELSE LET v == CHOOSE w \in voters : TRUE
         IN  accepted[sessionId][v] + SumAccepted(sessionId, voters \ {v})

\* C20: for every session, the clock values at which a vote can be accepted
\* (now <= endTimestamp) and those at which calculateResults can be accepted
\* (now > endTimestamp) are disjoint, so with a non-decreasing clock no vote
\* is accepted in a session from the first moment calculateResults could
\* succeed on it, even while it has not been called; the tally a
\* calculateResults call reports therefore contains every vote ever accepted
\* in the session.
C20_VotingEndsWhereFinalizeBegins ==
    [][ /\ ( CalledOp(lastCall', "vote") /\ lastCall'.result = Ok )
              => blockTimestamp <= votingSessions[lastCall'.args.sessionId].endTimestamp
        /\ ( CalledOp(lastCall', "calculateResults") /\ lastCall'.result = Ok )
              => blockTimestamp > votingSessions[lastCall'.args.sessionId].endTimestamp
        /\ \A s \in SessionIds :
              ( Created(s) /\ blockTimestamp > votingSessions[s].endTimestamp )
                 => /\ blockTimestamp' > votingSessions'[s].endTimestamp
                    /\ accepted'[s] = accepted[s]
                    /\ votingSessions'[s].finalTally = votingSessions[s].finalTally
        /\ \A s \in SessionIds :
              votingSessions'[s].resultsCalculated
                 => SumSeq(reportedTally'[s]) = SumAccepted(s, Voters)' ]_vars

\* calculateResults reported a tally of two votes, the two votes accepted in
\* the session.
C20_Witness ==
    /\ CalledOp(lastCall, "calculateResults")
    /\ lastCall.result = Ok
    /\ SumSeq(lastCall.event[3]) = 2
    /\ SumAccepted(lastCall.args.sessionId, Voters) = 2
    /\ reportedTally[lastCall.args.sessionId] = lastCall.event[3]

\* C21: in every reachable state, every session id greater than or equal to
\* the session count has a default record: isActive false, resultsCalculated
\* false, empty candidates and tally, zero timestamps, and no identity marked
\* as having voted; no vote, calculateResults or read call on such an id
\* changes it before a create allocates it.
C21_UnallocatedIdsStayDefault ==
    /\ \A s \in SessionIds : s >= votingSessionCount => votingSessions[s] = DefaultSession
    /\ [][ /\ \A s \in SessionIds :
                 /\ s >= votingSessionCount' => votingSessions'[s] = DefaultSession
                 /\ ( s >= votingSessionCount
                      /\ ~( CalledOp(lastCall', "createVotingSession")
                            /\ lastCall'.result = Ok /\ lastCall'.ret = s ) )
                       => votingSessions'[s] = votingSessions[s]
           /\ ( /\ lastCall'.op \in {"vote", "calculateResults", "getWinners"}
                /\ lastCall'.args.sessionId >= votingSessionCount )
                 => lastCall'.result # Ok
           /\ ( /\ CalledOp(lastCall', "getSessionInfo")
                /\ lastCall'.args.sessionId >= votingSessionCount )
                 => lastCall'.ret = <<"", <<>>, FALSE, FALSE, 0, 0>>
           /\ ( /\ CalledOp(lastCall', "getTally")
                /\ lastCall'.args.sessionId >= votingSessionCount )
                 => lastCall'.ret = <<>>
           /\ ( /\ CalledOp(lastCall', "hasVoted")
                /\ lastCall'.args.sessionId >= votingSessionCount )
                 => lastCall'.ret = FALSE ]_vars

\* getSessionInfo was called on the first id not yet allocated, at a time
\* when session 0 exists and holds a vote.
C21_Witness ==
    /\ CalledOp(lastCall, "getSessionInfo")
    /\ lastCall.args.sessionId = votingSessionCount
    /\ votingSessionCount = 1
    /\ votingSessions[1] = DefaultSession
    /\ SumSeq(votingSessions[0].finalTally) = 1

\* C22: a vote or calculateResults call on session s changes no field of any
\* other session and not the session count, and a create call changes no
\* existing session; in particular an identity that has voted in session s
\* can still have one vote accepted in any other open, unexpired session.
C22_SessionsAreIndependent ==
    [][ /\ lastCall'.op \in {"vote", "calculateResults"}
              => /\ votingSessionCount' = votingSessionCount
                 /\ \A t \in SessionIds \ {lastCall'.args.sessionId} :
                       /\ votingSessions'[t] = votingSessions[t]
                       /\ accepted'[t] = accepted[t]
        /\ CalledOp(lastCall', "createVotingSession")
              => \A t \in SessionIds : Created(t) => votingSessions'[t] = votingSessions[t]
        /\ ( /\ CalledOp(lastCall', "vote")
             /\ \E s \in SessionIds \ {lastCall'.args.sessionId} :
                   accepted[s][lastCall'.sender] >= 1
             /\ votingSessions[lastCall'.args.sessionId].isActive
             /\ blockTimestamp <= votingSessions[lastCall'.args.sessionId].endTimestamp
             /\ accepted[lastCall'.args.sessionId][lastCall'.sender] = 0
             /\ lastCall'.args.candidateIndex
                   < Len(votingSessions[lastCall'.args.sessionId].candidates) )
              => /\ lastCall'.result = Ok
                 /\ accepted'[lastCall'.args.sessionId][lastCall'.sender] = 1 ]_vars

\* A vote was accepted in session 1 from an identity whose vote had been
\* accepted in session 0, which is still open.
C22_Witness ==
    /\ CalledOp(lastCall, "vote")
    /\ lastCall.result = Ok
    /\ lastCall.args.sessionId = 1
    /\ accepted[0][lastCall.sender] = 1
    /\ accepted[1][lastCall.sender] = 1
    /\ votingSessions[0].isActive

====
